---------------------------- MODULE Spec2Model ----------------------------
(***************************************************************************)
(* evm-node-check: consistency check of EVM RPC nodes grouped into chains. *)
(* The model follows internal/config/config.go (Load, GetNodesByChain),    *)
(* internal/checker/checker.go (Check, checkChain, checkNode,              *)
(* checkBlockHashes) and cmd/evm-node-check/main.go (run).                 *)
(*                                                                         *)
(* Representation: a Go pointer to big.Int is a sequence of length 0 (nil)  *)
(* or 1; a Go map is a function; a Go error is a string, "nil" for nil.    *)
(*                                                                         *)
(* Spec runs checkNode as one step per node; SpecProbe follows checkNode   *)
(* call by call under a context the caller may cancel; SpecHash has the    *)
(* endpoints in step, differing in block hashes only.                      *)
(***************************************************************************)
EXTENDS Integers, Sequences, FiniteSets, TLC

\* Greatest block number an RPC endpoint answers in the model.
MaxHeight == 2

\* Chain ids and block hashes the RPC endpoints answer with.
ChainIDs == {1, 2}
Hashes == {"h1", "h2"}

NoError == "nil"

\* uint64 arithmetic: the modulus stands for 2^64 (any value above every
\* block number and gap of the model compares the same way).
UintWrap == 2 ^ 20
SubUint64(a, b) == (a - b + UintWrap) % UintWrap

---------------------------------------------------------------------------
(* internal/config/config.go *)

Connector(type, url) == [Type |-> type, URL |-> url]
Upstream(id, chain, connectors) == [ID |-> id, Chain |-> chain, Connectors |-> connectors]
NodeInfo(id, chain, address) == [ID |-> id, Chain |-> chain, Address |-> address]

\* The connector URLs of a config, in file order.
RECURSIVE ConnectorURLs(_)
ConnectorURLs(ups) ==
    IF ups = <<>> THEN <<>>
    ELSE [k \in 1..Len(Head(ups).Connectors) |-> Head(ups).Connectors[k].URL]
         \o ConnectorURLs(Tail(ups))

\* The duplicate check of Load from URL k on, seen the URLs met so far.
RECURSIVE checkURLs(_, _, _)
checkURLs(urls, k, seen) ==
    IF k > Len(urls) THEN NoError
    ELSE IF urls[k] = "" THEN "empty connector URL"
    ELSE IF urls[k] \in seen THEN "duplicate connector URL"
    ELSE checkURLs(urls, k + 1, seen \cup {urls[k]})

\* Load: the error Load returns for the parsed file content c ("nil": none).
Load(c) ==
    IF Len(c.Upstreams) = 0 THEN "no upstreams configured in config file"
    ELSE checkURLs(ConnectorURLs(c.Upstreams), 1, {})

\* The json-rpc connectors of one upstream as NodeInfo, in connector order.
RECURSIVE UpstreamNodes(_, _)
UpstreamNodes(u, cs) ==
    IF cs = <<>> THEN <<>>
    ELSE IF Head(cs).Type # "json-rpc" THEN UpstreamNodes(u, Tail(cs))
    ELSE <<NodeInfo(u.ID, u.Chain, Head(cs).URL)>> \o UpstreamNodes(u, Tail(cs))

\* All nodes as a flat list, in upstream then connector order.
RECURSIVE GetAllNodes(_)
GetAllNodes(ups) ==
    IF ups = <<>> THEN <<>>
    ELSE UpstreamNodes(Head(ups), Head(ups).Connectors) \o GetAllNodes(Tail(ups))

\* GetNodesByChain: chain name -> the chain's nodes in config order; a chain
\* is a key only if some json-rpc connector belongs to it.
GetNodesByChain(c) ==
    LET all == GetAllNodes(c.Upstreams)
        chains == {all[k].Chain : k \in 1..Len(all)}
    IN  [ch \in chains |-> SelectSeq(all, LAMBDA n : n.Chain = ch)]

---------------------------------------------------------------------------
(* internal/checker/checker.go: checkNode *)

Options(gap, count, debug) ==
    [MaxBlockGap |-> gap, BlockHashCount |-> count, CheckDebugMode |-> debug]

EmptyMap == [x \in {} |-> ""]
MapPut(m, k, v) == [x \in (DOMAIN m) \cup {k} |-> IF x = k THEN v ELSE m[x]]

\* What eth_getBlockByNumber can give: an error, a nil raw message, a body
\* that does not unmarshal, or a header with a hash.
BlockFailures == {"err", "nil", "bad"}
BlockResponses == BlockFailures \cup Hashes

\* The block numbers the hash loop asks for with height bn.
Window(o, bn) == {bn - j : j \in {x \in 0..(o.BlockHashCount - 1) : x <= bn}}

\* The answers of one RPC endpoint to one probe. Answers the probe never
\* reads are fixed, so that each distinct probe run appears once.
RPCFailures ==
    {[dialErr |-> TRUE, chainIDErr |-> FALSE, chainID |-> 0,
      blockNumberErr |-> FALSE, blockNumber |-> 0, block |-> EmptyMap,
      traceErr |-> FALSE],
     [dialErr |-> FALSE, chainIDErr |-> TRUE, chainID |-> 0,
      blockNumberErr |-> FALSE, blockNumber |-> 0, block |-> EmptyMap,
      traceErr |-> FALSE]}
    \cup
    {[dialErr |-> FALSE, chainIDErr |-> FALSE, chainID |-> c,
      blockNumberErr |-> TRUE, blockNumber |-> 0, block |-> EmptyMap,
      traceErr |-> FALSE] : c \in ChainIDs}

RPCAnswers(o) ==
    RPCFailures \cup
    UNION {
      {[dialErr |-> FALSE, chainIDErr |-> FALSE, chainID |-> cb[1],
        blockNumberErr |-> FALSE, blockNumber |-> cb[2], block |-> blk,
        traceErr |-> t] :
          blk \in [Window(o, cb[2]) -> BlockResponses],
          t \in (IF o.CheckDebugMode THEN BOOLEAN ELSE {FALSE})}
      : cb \in ChainIDs \X (0..MaxHeight) }

\* The block-hash loop of checkNode from iteration i on, m the map so far.
RECURSIVE getBlockHashes(_, _, _, _)
getBlockHashes(o, rpc, i, m) ==
    IF i >= o.BlockHashCount THEN m
    ELSE IF rpc.blockNumber < i THEN m
    ELSE LET targetBlock == SubUint64(rpc.blockNumber, i)
             raw == rpc.block[targetBlock]
         IN  IF raw \in BlockFailures
             THEN getBlockHashes(o, rpc, i + 1, m)
             ELSE getBlockHashes(o, rpc, i + 1, MapPut(m, targetBlock, raw))

\* checkNode: the NodeResult of probing node n when the endpoint answers rpc.
checkNode(o, n, rpc) ==
    LET info == [ID |-> n.ID, Chain |-> n.Chain, Address |-> n.Address,
                 ChainID |-> <<>>, BlockNumber |-> 0, BlockHashes |-> EmptyMap,
                 DebugOK |-> FALSE, Error |-> NoError]
    IN  IF rpc.dialErr THEN [info EXCEPT !.Error = "failed to connect"]
        ELSE IF rpc.chainIDErr THEN [info EXCEPT !.Error = "failed to get chain ID"]
        ELSE IF rpc.blockNumberErr
             THEN [info EXCEPT !.ChainID = <<rpc.chainID>>,
                               !.Error = "failed to get block number"]
        ELSE [info EXCEPT !.ChainID = <<rpc.chainID>>,
                          !.BlockNumber = rpc.blockNumber,
                          !.BlockHashes = getBlockHashes(o, rpc, 0, EmptyMap),
                          !.DebugOK = IF o.CheckDebugMode THEN ~rpc.traceErr ELSE TRUE]

\* checkNode step by step: what each call leaves in info, given its outcome.

\* The NodeResult checkNode starts with.
NewNodeResult(n) ==
    [ID |-> n.ID, Chain |-> n.Chain, Address |-> n.Address, ChainID |-> <<>>,
     BlockNumber |-> 0, BlockHashes |-> EmptyMap, DebugOK |-> FALSE, Error |-> NoError]

\* The errors a call can return under context c: a call made with a cancelled
\* context returns the context's error.
CallErrors(c) == IF c = "cancelled" THEN {TRUE} ELSE BOOLEAN
CallBlockResponses(c) == IF c = "cancelled" THEN {"err"} ELSE BlockResponses

\* rpc.DialContext returns as the transport decides: for an http URL it
\* opens no connection and succeeds whatever the context.
DialErrors == BOOLEAN

\* Variant: checkNode goes on to the next call after an error.
afterRequiredGoOn(err, next) == next

\* Where checkNode goes after DialContext, ChainID or BlockNumber: to its
\* return on an error, to the next call otherwise.
afterRequired(err, next) == IF err THEN "store" ELSE next

dialStep(inf, err) ==
    IF err THEN [inf EXCEPT !.Error = "failed to connect"] ELSE inf

chainIDStep(inf, err, c) ==
    IF err THEN [inf EXCEPT !.Error = "failed to get chain ID"]
    ELSE [inf EXCEPT !.ChainID = <<c>>]

blockNumberStep(inf, err, bn) ==
    IF err THEN [inf EXCEPT !.Error = "failed to get block number"]
    ELSE [inf EXCEPT !.BlockNumber = bn]

\* The condition and the break that end the block hash loop.
loopDone(o, inf, j) == j >= o.BlockHashCount \/ inf.BlockNumber < j

targetBlock(inf, j) == SubUint64(inf.BlockNumber, j)

\* One iteration of the block hash loop with response raw.
hashStep(inf, j, raw) ==
    IF raw \in BlockFailures THEN inf
    ELSE [inf EXCEPT !.BlockHashes = MapPut(@, targetBlock(inf, j), raw)]

\* Variant: a failed fetch ends the loop.
nextIterBreak(o, j, raw) == IF raw \in BlockFailures THEN o.BlockHashCount ELSE j + 1

\* The loop index after an iteration: continue and i++ both lead to i + 1.
nextIter(o, j, raw) == j + 1

\* Variant: without the debug check DebugOK is left as it is.
debugStepUnset(o, inf, err) ==
    IF o.CheckDebugMode THEN [inf EXCEPT !.DebugOK = ~err] ELSE inf

\* The debug check with outcome err of debug_traceBlockByNumber.
debugStep(o, inf, err) ==
    IF o.CheckDebugMode THEN [inf EXCEPT !.DebugOK = ~err]
    ELSE [inf EXCEPT !.DebugOK = TRUE]

\* One entry of the history of calls.
Call(method, block, ok) == [method |-> method, block |-> block, ok |-> ok]

\* The zero NodeResult of make([]NodeResult, n).
ZeroNodeResult ==
    [ID |-> "", Chain |-> "", Address |-> "", ChainID |-> <<>>, BlockNumber |-> 0,
     BlockHashes |-> EmptyMap, DebugOK |-> FALSE, Error |-> NoError]

---------------------------------------------------------------------------
(* internal/checker/checker.go: checkChain after the join *)

\* The format arguments of a FailedNode's Reason: kind is the fixed text,
\* a and b the %d arguments, s and t the %s / %v arguments.
Reason(kind, a, b, s, t) == [kind |-> kind, a |-> a, b |-> b, s |-> s, t |-> t]

FailedNode(node, reason) ==
    [ID |-> node.ID, Chain |-> node.Chain, Address |-> node.Address, Reason |-> reason]

\* The ChainResult checkChain starts with for a chain of n nodes.
NewChainResult(ch, n) ==
    [Chain |-> ch, Nodes |-> [k \in 1..n |-> ZeroNodeResult], ExpectedChainID |-> <<>>,
     MaxBlockNumber |-> 0, FailedNodes |-> <<>>, Passed |-> TRUE]

\* Variant: the loop does not break, so the last node without error wins.
RECURSIVE expectedChainIDLast(_, _)
expectedChainIDLast(ns, k) ==
    IF k > Len(ns) THEN <<>>
    ELSE LET rest == expectedChainIDLast(ns, k + 1)
         IN  IF rest # <<>> THEN rest
             ELSE IF ns[k].Error = NoError /\ ns[k].ChainID # <<>> THEN ns[k].ChainID
             ELSE <<>>

\* Expected chain ID: that of the first node, in slice order, without error.
RECURSIVE expectedChainID(_, _)
expectedChainID(ns, k) ==
    IF k > Len(ns) THEN <<>>
    ELSE IF ns[k].Error = NoError /\ ns[k].ChainID # <<>> THEN ns[k].ChainID
    ELSE expectedChainID(ns, k + 1)

\* Variant: the loop keeps the block number of the last node without error.
RECURSIVE maxBlockNumberLast(_, _, _)
maxBlockNumberLast(ns, k, cur) ==
    IF k > Len(ns) THEN cur
    ELSE maxBlockNumberLast(ns, k + 1,
            IF ns[k].Error = NoError THEN ns[k].BlockNumber ELSE cur)

\* Max block number: the loop from node k on, cur the maximum so far.
RECURSIVE maxBlockNumber(_, _, _)
maxBlockNumber(ns, k, cur) ==
    IF k > Len(ns) THEN cur
    ELSE maxBlockNumber(ns, k + 1,
            IF ns[k].Error = NoError /\ ns[k].BlockNumber > cur
            THEN ns[k].BlockNumber ELSE cur)

\* append(result.FailedNodes, ...); result.Passed = false
fail(res, fn) == [res EXCEPT !.FailedNodes = Append(@, fn), !.Passed = FALSE]

ChainIDMismatch(res, node) ==
    res.ExpectedChainID # <<>> /\ node.ChainID[1] # res.ExpectedChainID[1]

BlockGap(res, node) == SubUint64(res.MaxBlockNumber, node.BlockNumber)

\* Variant: a gap equal to the allowed maximum fails too.
GapTooLargeInclusive(o, res, node) == BlockGap(res, node) >= o.MaxBlockGap

GapTooLarge(o, res, node) == BlockGap(res, node) > o.MaxBlockGap

DebugMissing(o, node) == o.CheckDebugMode /\ ~node.DebugOK

\* Variant: every rule that matches is recorded, not only the first.
validateNodeAllRules(o, res, node) ==
    IF node.Error # NoError
    THEN fail(res, FailedNode(node, Reason("connection error", 0, 0, node.Error, "")))
    ELSE LET r1 == IF ChainIDMismatch(res, node)
                   THEN fail(res, FailedNode(node,
                           Reason("chain ID mismatch", res.ExpectedChainID[1],
                                  node.ChainID[1], "", "")))
                   ELSE res
             r2 == IF GapTooLarge(o, res, node)
                   THEN fail(r1, FailedNode(node,
                           Reason("block gap too large", BlockGap(res, node),
                                  o.MaxBlockGap, "", "")))
                   ELSE r1
         IN  IF DebugMissing(o, node)
             THEN fail(r2, FailedNode(node, Reason("debug mode not available", 0, 0, "", "")))
             ELSE r2

\* One iteration of the validation loop: the first rule that matches.
validateNode(o, res, node) ==
    IF node.Error # NoError
    THEN fail(res, FailedNode(node, Reason("connection error", 0, 0, node.Error, "")))
    ELSE IF ChainIDMismatch(res, node)
    THEN fail(res, FailedNode(node,
            Reason("chain ID mismatch", res.ExpectedChainID[1], node.ChainID[1], "", "")))
    ELSE IF GapTooLarge(o, res, node)
    THEN fail(res, FailedNode(node,
            Reason("block gap too large", BlockGap(res, node), o.MaxBlockGap, "", "")))
    ELSE IF DebugMissing(o, node)
    THEN fail(res, FailedNode(node, Reason("debug mode not available", 0, 0, "", "")))
    ELSE res

\* Variant: the loop stops at the first node with an error.
RECURSIVE validateNodesAbort(_, _, _)
validateNodesAbort(o, res, k) ==
    IF k > Len(res.Nodes) THEN res
    ELSE IF res.Nodes[k].Error # NoError THEN validateNode(o, res, res.Nodes[k])
    ELSE validateNodesAbort(o, validateNode(o, res, res.Nodes[k]), k + 1)

\* The validation loop from node k on.
RECURSIVE validateNodes(_, _, _)
validateNodes(o, res, k) ==
    IF k > Len(res.Nodes) THEN res
    ELSE validateNodes(o, validateNode(o, res, res.Nodes[k]), k + 1)

---------------------------------------------------------------------------
(* internal/checker/checker.go: checkBlockHashes *)

ZeroHash == "0x0"

\* The IDs, in slice order from node k on, of the nodes without error that
\* report hash h for block b.
RECURSIVE reportingIDs(_, _, _, _)
reportingIDs(ns, k, b, h) ==
    IF k > Len(ns) THEN <<>>
    ELSE (IF ns[k].Error = NoError /\ b \in DOMAIN ns[k].BlockHashes
             /\ ns[k].BlockHashes[b] = h
          THEN <<ns[k].ID>> ELSE <<>>) \o reportingIDs(ns, k + 1, b, h)

\* Variant: only the nodes on the expected chain ID are entered in the map.
blockHashNodesSameChain(ns) ==
    LET same == SelectSeq(ns, LAMBDA n : n.Error = NoError /\ n.ChainID = expectedChainID(ns, 1))
        blocks == UNION {DOMAIN same[k].BlockHashes : k \in 1..Len(same)}
        hashesAt(b) == {same[k].BlockHashes[b] :
                          k \in {j \in 1..Len(same) : b \in DOMAIN same[j].BlockHashes}}
    IN  [b \in blocks |-> [h \in hashesAt(b) |-> reportingIDs(same, 1, b, h)]]

\* blockHashNodes: block number -> hash -> IDs of the nodes with this hash.
blockHashNodes(ns) ==
    LET ok == {k \in 1..Len(ns) : ns[k].Error = NoError}
        blocks == UNION {DOMAIN ns[k].BlockHashes : k \in ok}
        hashesAt(b) == {ns[k].BlockHashes[b] : k \in {j \in ok : b \in DOMAIN ns[j].BlockHashes}}
    IN  [b \in blocks |-> [h \in hashesAt(b) |-> reportingIDs(ns, 1, b, h)]]

\* The orders in which a range statement can visit the keys of a Go map.
RECURSIVE MapOrders(_)
MapOrders(keys) ==
    IF keys = {} THEN {<<>>}
    ELSE UNION {{<<x>> \o p : p \in MapOrders(keys \ {x})} : x \in keys}

\* Variant: the comparison of the majority loop is reversed.
RECURSIVE findMajorityLess(_, _, _, _)
findMajorityLess(hashMap, order, majorityHash, maxCount) ==
    IF order = <<>> THEN majorityHash
    ELSE IF Len(hashMap[Head(order)]) < maxCount
    THEN findMajorityLess(hashMap, Tail(order), Head(order), Len(hashMap[Head(order)]))
    ELSE findMajorityLess(hashMap, Tail(order), majorityHash, maxCount)

\* The majority loop over hashMap visited in this order.
RECURSIVE findMajority(_, _, _, _)
findMajority(hashMap, order, majorityHash, maxCount) ==
    IF order = <<>> THEN majorityHash
    ELSE IF Len(hashMap[Head(order)]) > maxCount
    THEN findMajority(hashMap, Tail(order), Head(order), Len(hashMap[Head(order)]))
    ELSE findMajority(hashMap, Tail(order), majorityHash, maxCount)

\* The first node of the chain with this ID (zero strings if none).
RECURSIVE findNode(_, _, _)
findNode(ns, k, nodeID) ==
    IF k > Len(ns) THEN [ID |-> nodeID, Chain |-> "", Address |-> ""]
    ELSE IF ns[k].ID = nodeID
    THEN [ID |-> nodeID, Chain |-> ns[k].Chain, Address |-> ns[k].Address]
    ELSE findNode(ns, k + 1, nodeID)

\* Variant: a node ID that has a mismatch record already gets no second one.
reportMismatchOnce(res, nodeID, blockNum, hash, majorityHash) ==
    IF \E j \in 1..Len(res.FailedNodes) :
          res.FailedNodes[j].ID = nodeID
             /\ res.FailedNodes[j].Reason.kind = "block hash mismatch"
    THEN res
    ELSE fail(res, FailedNode(findNode(res.Nodes, 1, nodeID),
                              Reason("block hash mismatch", blockNum, 0, hash, majorityHash)))

\* Variant: the record is appended and Passed is left as it is.
reportMismatchKeepPassed(res, nodeID, blockNum, hash, majorityHash) ==
    [res EXCEPT !.FailedNodes =
        Append(@, FailedNode(findNode(res.Nodes, 1, nodeID),
                             Reason("block hash mismatch", blockNum, 0, hash, majorityHash)))]

\* One mismatch record.
reportMismatch(res, nodeID, blockNum, hash, majorityHash) ==
    fail(res, FailedNode(findNode(res.Nodes, 1, nodeID),
                         Reason("block hash mismatch", blockNum, 0, hash, majorityHash)))

RECURSIVE reportNodes(_, _, _, _, _)
reportNodes(res, nodeIDs, blockNum, hash, majorityHash) ==
    IF nodeIDs = <<>> THEN res
    ELSE reportNodes(reportMismatch(res, Head(nodeIDs), blockNum, hash, majorityHash),
                     Tail(nodeIDs), blockNum, hash, majorityHash)

\* The report loop over hashMap visited in this order.
RECURSIVE reportHashes(_, _, _, _, _)
reportHashes(res, hashMap, order, blockNum, majorityHash) ==
    IF order = <<>> THEN res
    ELSE IF Head(order) = majorityHash
    THEN reportHashes(res, hashMap, Tail(order), blockNum, majorityHash)
    ELSE reportHashes(reportNodes(res, hashMap[Head(order)], blockNum, Head(order), majorityHash),
                      hashMap, Tail(order), blockNum, majorityHash)

\* The results the body of the outer loop can give for one block: one per
\* visiting order of the two inner range statements.
checkBlock(res, hashMap, blockNum) ==
    IF Cardinality(DOMAIN hashMap) <= 1 THEN {res}
    ELSE {reportHashes(res, hashMap, ro, blockNum, findMajority(hashMap, mo, ZeroHash, 0)) :
             mo \in MapOrders(DOMAIN hashMap), ro \in MapOrders(DOMAIN hashMap)}

\* The outer loop over the blocks not visited yet, in any order.
RECURSIVE rangeBlocks(_, _, _)
rangeBlocks(res, bhn, todo) ==
    IF todo = {} THEN {res}
    ELSE UNION {UNION {rangeBlocks(r, bhn, todo \ {b}) : r \in checkBlock(res, bhn[b], b)}
                : b \in todo}

\* checkBlockHashes: every result the map iteration orders allow.
checkBlockHashes(res) ==
    LET bhn == blockHashNodes(res.Nodes) IN rangeBlocks(res, bhn, DOMAIN bhn)

\* checkChain from the join on, as a function of the stored node results:
\* every ChainResult it can return.
evalChain(o, ch, ns) ==
    LET r0 == [NewChainResult(ch, Len(ns)) EXCEPT !.Nodes = ns]
        r1 == [r0 EXCEPT !.ExpectedChainID = expectedChainID(ns, 1)]
        r2 == [r1 EXCEPT !.MaxBlockNumber = maxBlockNumber(ns, 1, r1.MaxBlockNumber)]
    IN  checkBlockHashes(validateNodes(o, r2, 1))

---------------------------------------------------------------------------
(* The runs explored: a config file and the command-line options. *)

Config(upstreams) == [Upstreams |-> upstreams]

CfgThree ==
    Config(<<Upstream("n1", "sepolia", <<Connector("json-rpc", "u1")>>),
             Upstream("n2", "sepolia", <<Connector("json-rpc", "u2")>>),
             Upstream("n3", "sepolia", <<Connector("json-rpc", "u3")>>)>>)

CfgTwo ==
    Config(<<Upstream("n1", "sepolia", <<Connector("json-rpc", "u1")>>),
             Upstream("n2", "sepolia", <<Connector("json-rpc", "u2")>>)>>)

CfgTwoChains ==
    Config(<<Upstream("n1", "sepolia", <<Connector("ws", "w1"), Connector("json-rpc", "u1")>>),
             Upstream("b1", "bsc", <<Connector("json-rpc", "u2")>>)>>)

CfgNoRPC ==
    Config(<<Upstream("n1", "sepolia", <<Connector("ws", "w1")>>)>>)

CfgEmpty == Config(<<>>)

CfgDupURL ==
    Config(<<Upstream("n1", "sepolia", <<Connector("json-rpc", "u1")>>),
             Upstream("n2", "sepolia", <<Connector("json-rpc", "u1")>>)>>)

CfgOne ==
    Config(<<Upstream("n1", "sepolia", <<Connector("json-rpc", "u1")>>)>>)

\* One upstream with two json-rpc connectors: two nodes with the same ID.
CfgDupID ==
    Config(<<Upstream("n1", "sepolia", <<Connector("json-rpc", "u1"),
                                         Connector("json-rpc", "u2")>>),
             Upstream("n2", "sepolia", <<Connector("json-rpc", "u3")>>)>>)

\* The runs in which checkNode is followed call by call.
ProbeScenarios ==
    {[cfg |-> CfgTwo, opts |-> Options(1, 1, TRUE)],
     [cfg |-> CfgOne, opts |-> Options(0, 2, TRUE)],
     [cfg |-> CfgOne, opts |-> Options(1, 0, FALSE)],
     [cfg |-> CfgOne, opts |-> Options(1, 3, FALSE)]}

\* The runs in which the endpoints are in step and differ in hashes only.
HashScenarios ==
    {[cfg |-> CfgDupID, opts |-> Options(1, 2, FALSE)],
     [cfg |-> CfgThree, opts |-> Options(1, 2, FALSE)]}

Scenarios ==
    {[cfg |-> CfgThree,     opts |-> Options(1, 1, FALSE)],
     [cfg |-> CfgTwo,       opts |-> Options(1, 2, TRUE)],
     [cfg |-> CfgTwoChains, opts |-> Options(0, 1, TRUE)],
     [cfg |-> CfgNoRPC,     opts |-> Options(1, 1, TRUE)],
     [cfg |-> CfgEmpty,     opts |-> Options(1, 1, TRUE)],
     [cfg |-> CfgDupURL,    opts |-> Options(1, 1, TRUE)]}

---------------------------------------------------------------------------
(* State *)

VARIABLES
    cfg,          \* the content of the config file
    opts,         \* checker.Options built by run
    pc,           \* where the main goroutine is
    exit,         \* what run returned: "running", "nil" or its error
    nodesByChain, \* Check: c.cfg.GetNodesByChain()
    unvisited,    \* Check: the chains the range loop has not visited yet
    result,       \* Check: the CheckResult being built
    ret,          \* what Check returned: <<>> before, <<[result, err]>> after
    chain,        \* checkChain: its chain argument
    chainResult,  \* checkChain: its result
    i,            \* checkChain: the index the spawn loop is at
    wg,           \* checkChain: the WaitGroup counter
    gpc,          \* per probe goroutine: "new", "probe", "store" or "done"
    info,         \* per probe goroutine: what checkNode returned
    written,      \* history: per slot of result.Nodes, the goroutines that wrote it
    outOfOrder,   \* history: some goroutine stored before one of lower index
    ctx,          \* the caller's context: "live" or "cancelled"
    hashIter,     \* per running checkNode: the index i of its block hash loop
    calls,        \* history: per running checkNode, the RPC calls it made so far
    atCancel      \* history: the chain and the goroutines' positions at the cancel

vars == <<cfg, opts, pc, exit, nodesByChain, unvisited, result, ret, chain,
          chainResult, i, wg, gpc, info, written, outOfOrder,
          ctx, hashIter, calls, atCancel>>

\* The nodes argument of the running checkChain.
nodes == nodesByChain[chain]

NoChain == NewChainResult("", 0)

\* The start of run with the config file and options of scenario s.
Start(s) ==
    /\ cfg = s.cfg
    /\ opts = s.opts
    /\ pc = "run"
    /\ exit = "running"
    /\ nodesByChain = EmptyMap
    /\ unvisited = {}
    /\ result = [ChainResults |-> <<>>, FailedNodes |-> <<>>, Passed |-> FALSE]
    /\ ret = <<>>
    /\ chain = ""
    /\ chainResult = NoChain
    /\ i = 0
    /\ wg = 0
    /\ gpc = <<>>
    /\ info = <<>>
    /\ written = <<>>
    /\ outOfOrder = FALSE
    /\ ctx = "live"
    /\ hashIter = <<>>
    /\ calls = <<>>
    /\ atCancel = [chain |-> "", at |-> <<>>]

Init == \E s \in Scenarios : Start(s)

checkVars == <<nodesByChain, unvisited, result, ret>>
chainVars == <<chain, chainResult, i, wg, gpc, info, written, outOfOrder>>
probeVars == <<ctx, hashIter, calls, atCancel>>

---------------------------------------------------------------------------
(* cmd/evm-node-check/main.go: run *)

\* run up to the call of Check: a config that does not load ends the run.
run_Load ==
    /\ pc = "run"
    /\ IF Load(cfg) # NoError
       THEN pc' = "exit" /\ exit' = "failed to load config"
       ELSE pc' = "check" /\ exit' = exit
    /\ UNCHANGED <<cfg, opts, probeVars, checkVars, chainVars>>

\* run after Check returned.
run_Finish ==
    /\ pc = "returned"
    /\ pc' = "exit"
    /\ exit' = IF ret[1].err # NoError THEN "check failed"
               ELSE IF ~ret[1].result.Passed THEN "some nodes failed checks"
               ELSE NoError
    /\ UNCHANGED <<cfg, opts, probeVars, checkVars, chainVars>>

---------------------------------------------------------------------------
(* internal/checker/checker.go: Check *)

Check_Begin ==
    /\ pc = "check"
    /\ nodesByChain' = GetNodesByChain(cfg)
    /\ unvisited' = DOMAIN nodesByChain'
    /\ result' = [ChainResults |-> <<>>, FailedNodes |-> <<>>, Passed |-> TRUE]
    /\ pc' = "range"
    /\ UNCHANGED <<cfg, opts, probeVars, exit, ret, chainVars>>

\* The range loop visits a chain not visited yet and calls checkChain.
Check_Range ==
    /\ pc = "range"
    /\ \E ch \in unvisited :
        /\ unvisited' = unvisited \ {ch}
        /\ chain' = ch
        /\ chainResult' = NewChainResult(ch, Len(nodesByChain[ch]))
        /\ gpc' = [k \in 1..Len(nodesByChain[ch]) |-> "new"]
        /\ info' = [k \in 1..Len(nodesByChain[ch]) |-> ZeroNodeResult]
        /\ written' = [k \in 1..Len(nodesByChain[ch]) |-> <<>>]
    /\ i' = 1
    /\ wg' = 0
    /\ outOfOrder' = FALSE
    /\ pc' = "spawn"
    /\ UNCHANGED <<cfg, opts, probeVars, exit, nodesByChain, result, ret>>

\* Variant: Passed is overwritten with the last chain's.
mergeLastWins(res, cr) ==
    [ChainResults |-> Append(res.ChainResults, cr),
     FailedNodes |-> res.FailedNodes \o cr.FailedNodes,
     Passed |-> cr.Passed]

\* What Check folds a chain's result into.
merge(res, cr) ==
    [ChainResults |-> Append(res.ChainResults, cr),
     FailedNodes |-> res.FailedNodes \o cr.FailedNodes,
     Passed |-> IF ~cr.Passed THEN FALSE ELSE res.Passed]

\* checkChain returned: the loop body appends its result.
Check_Append ==
    /\ pc = "append"
    /\ result' = merge(result, chainResult)
    /\ pc' = "range"
    /\ chain' = ""
    /\ chainResult' = NoChain
    /\ i' = 0
    /\ wg' = 0
    /\ gpc' = <<>>
    /\ info' = <<>>
    /\ written' = <<>>
    /\ outOfOrder' = FALSE
    /\ UNCHANGED <<cfg, opts, probeVars, exit, nodesByChain, unvisited, ret>>

Check_Return ==
    /\ pc = "range"
    /\ unvisited = {}
    /\ ret' = <<[result |-> result, err |-> NoError]>>
    /\ pc' = "returned"
    /\ UNCHANGED <<cfg, opts, probeVars, exit, nodesByChain, unvisited, result, chainVars>>

---------------------------------------------------------------------------
(* internal/checker/checker.go: checkChain *)

\* wg.Add(1); go func(idx, n)
Spawn ==
    /\ pc = "spawn"
    /\ wg' = wg + 1
    /\ gpc' = [gpc EXCEPT ![i] = "probe"]
    /\ i' = i + 1
    /\ pc' = IF i = Len(nodes) THEN "wait" ELSE "spawn"
    /\ UNCHANGED <<cfg, opts, probeVars, exit, checkVars, chain, chainResult, info, written, outOfOrder>>

\* info := c.checkNode(ctx, n), with whatever the endpoint answers.
Probe(k) ==
    /\ gpc[k] = "probe"
    /\ \E rpc \in RPCAnswers(opts) :
          info' = [info EXCEPT ![k] = checkNode(opts, nodes[k], rpc)]
    /\ gpc' = [gpc EXCEPT ![k] = "store"]
    /\ UNCHANGED <<cfg, opts, probeVars, pc, exit, checkVars, chain, chainResult, i, wg,
                   written, outOfOrder>>

\* Variant: the closure reads the loop variable instead of its idx argument.
StoreIndexLoopVar(k) == IF i > 1 THEN i - 1 ELSE 1

\* The slot goroutine k writes: its idx argument.
StoreIndex(k) == k

\* mu.Lock(); result.Nodes[idx] = info; mu.Unlock(); then the deferred wg.Done().
Store(k) ==
    /\ gpc[k] = "store"
    /\ chainResult' = [chainResult EXCEPT !.Nodes[StoreIndex(k)] = info[k]]
    /\ written' = [written EXCEPT ![StoreIndex(k)] = Append(@, k)]
    /\ outOfOrder' = (outOfOrder \/ \E j \in 1..(k - 1) : gpc[j] # "done")
    /\ wg' = wg - 1
    /\ gpc' = [gpc EXCEPT ![k] = "done"]
    /\ UNCHANGED <<cfg, opts, probeVars, pc, exit, checkVars, chain, i, info>>

\* Variant: the wait returns while one goroutine is still counted.
JoinReadyEarly == wg <= 1

\* wg.Wait() returns.
JoinReady == wg = 0

Wait ==
    /\ pc = "wait"
    /\ JoinReady
    /\ pc' = "expected"
    /\ UNCHANGED <<cfg, opts, probeVars, exit, checkVars, chainVars>>

DetermineExpectedChainID ==
    /\ pc = "expected"
    /\ chainResult' = [chainResult EXCEPT
                          !.ExpectedChainID = expectedChainID(chainResult.Nodes, 1)]
    /\ pc' = "maxblock"
    /\ UNCHANGED <<cfg, opts, probeVars, exit, checkVars, chain, i, wg, gpc, info, written, outOfOrder>>

FindMaxBlockNumber ==
    /\ pc = "maxblock"
    /\ chainResult' = [chainResult EXCEPT
                          !.MaxBlockNumber =
                              maxBlockNumber(chainResult.Nodes, 1, chainResult.MaxBlockNumber)]
    /\ pc' = "validate"
    /\ UNCHANGED <<cfg, opts, probeVars, exit, checkVars, chain, i, wg, gpc, info, written, outOfOrder>>

ValidateAllNodes ==
    /\ pc = "validate"
    /\ chainResult' = validateNodes(opts, chainResult, 1)
    /\ pc' = "hashes"
    /\ UNCHANGED <<cfg, opts, probeVars, exit, checkVars, chain, i, wg, gpc, info, written, outOfOrder>>

CheckBlockHashes ==
    /\ pc = "hashes"
    /\ chainResult' \in checkBlockHashes(chainResult)
    /\ pc' = "append"
    /\ UNCHANGED <<cfg, opts, probeVars, exit, checkVars, chain, i, wg, gpc, info, written, outOfOrder>>

---------------------------------------------------------------------------
(* internal/checker/checker.go: checkNode, call by call, under the caller's
   context *)

\* rpc.DialContext(ctx, n.Address)
checkNode_Dial(k) ==
    /\ gpc[k] = "probe"
    /\ \E err \in DialErrors :
          /\ info' = [info EXCEPT ![k] = dialStep(NewNodeResult(nodes[k]), err)]
          /\ gpc' = [gpc EXCEPT ![k] = afterRequired(err, "chainID")]
          /\ calls' = (k :> <<Call("dial", 0, ~err)>>) @@ calls
    /\ UNCHANGED <<cfg, opts, pc, exit, checkVars, chain, chainResult, i, wg,
                   written, outOfOrder, ctx, hashIter, atCancel>>

\* ethClient.ChainID(ctx)
checkNode_ChainID(k) ==
    /\ gpc[k] = "chainID"
    /\ \E err \in CallErrors(ctx), c \in ChainIDs :
          /\ info' = [info EXCEPT ![k] = chainIDStep(@, err, c)]
          /\ gpc' = [gpc EXCEPT ![k] = afterRequired(err, "blockNumber")]
          /\ calls' = [calls EXCEPT ![k] = Append(@, Call("eth_chainId", 0, ~err))]
    /\ UNCHANGED <<cfg, opts, pc, exit, checkVars, chain, chainResult, i, wg,
                   written, outOfOrder, ctx, hashIter, atCancel>>

\* ethClient.BlockNumber(ctx); on success the block hash loop starts at i = 0.
checkNode_BlockNumber(k) ==
    /\ gpc[k] = "blockNumber"
    /\ \E err \in CallErrors(ctx), bn \in 0..MaxHeight :
          /\ info' = [info EXCEPT ![k] = blockNumberStep(@, err, bn)]
          /\ gpc' = [gpc EXCEPT ![k] = afterRequired(err, "hashes")]
          /\ calls' = [calls EXCEPT ![k] = Append(@, Call("eth_blockNumber", 0, ~err))]
    /\ hashIter' = (k :> 0) @@ hashIter
    /\ UNCHANGED <<cfg, opts, pc, exit, checkVars, chain, chainResult, i, wg,
                   written, outOfOrder, ctx, atCancel>>

\* One iteration of the block hash loop: eth_getBlockByNumber(targetBlock).
checkNode_GetBlock(k) ==
    /\ gpc[k] = "hashes"
    /\ ~loopDone(opts, info[k], hashIter[k])
    /\ \E raw \in CallBlockResponses(ctx) :
          /\ info' = [info EXCEPT ![k] = hashStep(@, hashIter[k], raw)]
          /\ calls' = [calls EXCEPT ![k] =
                          Append(@, Call("eth_getBlockByNumber",
                                         targetBlock(info[k], hashIter[k]),
                                         raw \notin BlockFailures))]
          /\ hashIter' = [hashIter EXCEPT ![k] = nextIter(opts, @, raw)]
    /\ UNCHANGED <<cfg, opts, pc, exit, checkVars, chain, chainResult, i, wg, gpc,
                   written, outOfOrder, ctx, atCancel>>

\* The block hash loop ends.
checkNode_LoopExit(k) ==
    /\ gpc[k] = "hashes"
    /\ loopDone(opts, info[k], hashIter[k])
    /\ gpc' = [gpc EXCEPT ![k] = "debug"]
    /\ UNCHANGED <<cfg, opts, pc, exit, checkVars, chain, chainResult, i, wg, info,
                   written, outOfOrder, probeVars>>

\* The debug check: debug_traceBlockByNumber if asked for; then return info.
checkNode_Debug(k) ==
    /\ gpc[k] = "debug"
    /\ \E err \in (IF opts.CheckDebugMode THEN CallErrors(ctx) ELSE {FALSE}) :
          /\ info' = [info EXCEPT ![k] = debugStep(opts, @, err)]
          /\ calls' = IF opts.CheckDebugMode
                      THEN [calls EXCEPT ![k] =
                              Append(@, Call("debug_traceBlockByNumber",
                                             info[k].BlockNumber, ~err))]
                      ELSE calls
    /\ gpc' = [gpc EXCEPT ![k] = "store"]
    /\ UNCHANGED <<cfg, opts, pc, exit, checkVars, chain, chainResult, i, wg,
                   written, outOfOrder, ctx, hashIter, atCancel>>

\* Goroutine k is at a call of checkNode: the connect, the chain ID or the
\* block number call, a block fetch of the loop, or the trace call.
AtCall(k) ==
    \/ gpc[k] \in {"probe", "chainID", "blockNumber"}
    \/ gpc[k] = "hashes" /\ ~loopDone(opts, info[k], hashIter[k])
    \/ gpc[k] = "debug" /\ opts.CheckDebugMode

\* The caller cancels the context while probes of a chain are in flight.
Cancel ==
    /\ ctx = "live"
    /\ \E k \in DOMAIN gpc : AtCall(k)
    /\ ctx' = "cancelled"
    /\ atCancel' = [chain |-> chain,
                    at |-> [k \in DOMAIN gpc |-> IF AtCall(k) THEN gpc[k] ELSE "none"]]
    /\ UNCHANGED <<cfg, opts, pc, exit, checkVars, chainVars, hashIter, calls>>

\* The answers of an endpoint that is in step with the others: it fails to
\* connect, or it is on chain ID 1 at height MaxHeight and has or lacks each
\* block asked for.
HashAnswers(o) ==
    {rpc \in RPCAnswers(o) :
        /\ ~rpc.chainIDErr /\ ~rpc.blockNumberErr /\ ~rpc.traceErr
        /\ ~rpc.dialErr =>
              /\ rpc.chainID = 1
              /\ rpc.blockNumber = MaxHeight
              /\ \A b \in DOMAIN rpc.block : rpc.block[b] \in Hashes \cup {"nil"}}

\* info := c.checkNode(ctx, n), answered by an endpoint in step.
ProbeInStep(k) ==
    /\ gpc[k] = "probe"
    /\ \E rpc \in HashAnswers(opts) :
          info' = [info EXCEPT ![k] = checkNode(opts, nodes[k], rpc)]
    /\ gpc' = [gpc EXCEPT ![k] = "store"]
    /\ UNCHANGED <<cfg, opts, probeVars, pc, exit, checkVars, chain, chainResult, i, wg,
                   written, outOfOrder>>

---------------------------------------------------------------------------

Next ==
    \/ run_Load
    \/ Check_Begin
    \/ Check_Range
    \/ Spawn
    \/ \E k \in DOMAIN gpc : Probe(k)
    \/ \E k \in DOMAIN gpc : Store(k)
    \/ Wait
    \/ DetermineExpectedChainID
    \/ FindMaxBlockNumber
    \/ ValidateAllNodes
    \/ CheckBlockHashes
    \/ Check_Append
    \/ Check_Return
    \/ run_Finish

Spec == Init /\ [][Next]_vars

\* The runs of ProbeScenarios with checkNode followed call by call and a
\* caller that may cancel the context.
InitProbe == \E s \in ProbeScenarios : Start(s)

NextProbe ==
    \/ run_Load
    \/ Check_Begin
    \/ Check_Range
    \/ Spawn
    \/ \E k \in DOMAIN gpc : checkNode_Dial(k)
    \/ \E k \in DOMAIN gpc : checkNode_ChainID(k)
    \/ \E k \in DOMAIN gpc : checkNode_BlockNumber(k)
    \/ \E k \in DOMAIN gpc : checkNode_GetBlock(k)
    \/ \E k \in DOMAIN gpc : checkNode_LoopExit(k)
    \/ \E k \in DOMAIN gpc : checkNode_Debug(k)
    \/ \E k \in DOMAIN gpc : Store(k)
    \/ Cancel
    \/ Wait
    \/ DetermineExpectedChainID
    \/ FindMaxBlockNumber
    \/ ValidateAllNodes
    \/ CheckBlockHashes
    \/ Check_Append
    \/ Check_Return
    \/ run_Finish

SpecProbe == InitProbe /\ [][NextProbe]_vars

\* The runs of HashScenarios with endpoints in step.
InitHash == \E s \in HashScenarios : Start(s)

NextHash ==
    \/ run_Load
    \/ Check_Begin
    \/ Check_Range
    \/ Spawn
    \/ \E k \in DOMAIN gpc : ProbeInStep(k)
    \/ \E k \in DOMAIN gpc : Store(k)
    \/ Wait
    \/ DetermineExpectedChainID
    \/ FindMaxBlockNumber
    \/ ValidateAllNodes
    \/ CheckBlockHashes
    \/ Check_Append
    \/ Check_Return
    \/ run_Finish

SpecHash == InitHash /\ [][NextHash]_vars

---------------------------------------------------------------------------
(* Properties *)

PostJoin == pc \in {"expected", "maxblock", "validate", "hashes", "append"}

\* C1: whatever the completion order of a chain's probes, once the join has
\* completed slot s of result.Nodes holds the outcome of the s-th node in
\* input order; every slot is written exactly once, by the goroutine of its
\* own node, and no goroutine writes another one's slot.
C1_SlotsInInputOrder ==
    /\ \A s \in DOMAIN written :
          /\ Len(written[s]) <= 1
          /\ \A j \in 1..Len(written[s]) : written[s][j] = s
    /\ PostJoin =>
          \A s \in 1..Len(nodes) :
             /\ written[s] = <<s>>
             /\ chainResult.Nodes[s] = info[s]
             /\ chainResult.Nodes[s].ID = nodes[s].ID
             /\ chainResult.Nodes[s].Chain = nodes[s].Chain
             /\ chainResult.Nodes[s].Address = nodes[s].Address

\* A join completed after the probes stored in an order other than input order.
C1_Witness == pc = "expected" /\ Len(nodes) = 3 /\ outOfOrder

ProbeRunning == \E k \in DOMAIN gpc : gpc[k] # "done"

BaselineOrRecordExists ==
    \/ chainResult.ExpectedChainID # <<>>
    \/ chainResult.MaxBlockNumber # 0
    \/ chainResult.FailedNodes # <<>>
    \/ ~chainResult.Passed

\* C2: the baselines (ExpectedChainID, MaxBlockNumber), every FailedNode and
\* the hash reconciliation of a chain come only after every probe of the
\* chain has finished and stored its outcome: no baseline or record exists,
\* and main is not past the join, while a probe is still running.
C2_BaselineAfterJoin ==
    (PostJoin \/ BaselineOrRecordExists) =>
        /\ ~ProbeRunning
        /\ \A s \in 1..Len(nodes) : written[s] # <<>>

\* Baselines and a record exist, after probes that finished out of order.
C2_Witness ==
    /\ pc = "hashes"
    /\ chainResult.ExpectedChainID # <<>>
    /\ chainResult.MaxBlockNumber > 0
    /\ chainResult.FailedNodes # <<>>
    /\ outOfOrder

\* The NodeResult of a node whose connection attempt fails.
ConnFailure(n) == checkNode(opts, n, CHOOSE rpc \in RPCFailures : rpc.dialErr)

IsHashRecord(r) == r.Reason.kind = "block hash mismatch"
RecordsOf(recs, addr) == SelectSeq(recs, LAMBDA r : r.Address = addr)
RuleRecordsOf(recs, addr) == SelectSeq(recs, LAMBDA r : r.Address = addr /\ ~IsHashRecord(r))

Succeeded(ns) == {k \in 1..Len(ns) : ns[k].Error = NoError}

\* The stored results of the chain, had node k failed to connect.
WithConnFailure(k) == [chainResult.Nodes EXCEPT ![k] = ConnFailure(nodes[k])]

BaselinesKept(alt) ==
    /\ expectedChainID(alt, 1) = chainResult.ExpectedChainID
    /\ maxBlockNumber(alt, 1, 0) = chainResult.MaxBlockNumber

\* C3 as stated: of two runs that differ only in whether node k fails to
\* connect, every other node of the chain has the same FailedNode records.
C3_Original ==
    pc = "append" =>
        \A k \in Succeeded(chainResult.Nodes) :
            \E r \in evalChain(opts, chain, WithConnFailure(k)) :
                \A m \in (1..Len(nodes)) \ {k} :
                    RecordsOf(r.FailedNodes, nodes[m].Address)
                        = RecordsOf(chainResult.FailedNodes, nodes[m].Address)

\* C3 (amended): a chain's result is computed from the stored results of its
\* own nodes only, so a connection error in one chain alters nothing in
\* another; within its chain a connection error of node k leaves every other
\* node's stored result as it is and, when it leaves ExpectedChainID and
\* MaxBlockNumber unchanged, every other node's rule record as it is.
C3_ConnectionErrorContained ==
    /\ pc = "append" =>
        /\ chainResult \in evalChain(opts, chain, chainResult.Nodes)
        /\ \A k \in Succeeded(chainResult.Nodes) :
              BaselinesKept(WithConnFailure(k)) =>
                 \A r \in evalChain(opts, chain, WithConnFailure(k)) :
                    \A m \in (1..Len(nodes)) \ {k} :
                       /\ r.Nodes[m] = chainResult.Nodes[m]
                       /\ RuleRecordsOf(r.FailedNodes, nodes[m].Address)
                             = RuleRecordsOf(chainResult.FailedNodes, nodes[m].Address)
    /\ \A c \in 1..Len(result.ChainResults) :
          LET cr == result.ChainResults[c]
          IN  /\ cr \in evalChain(opts, cr.Chain, cr.Nodes)
              /\ \A j \in 1..Len(cr.Nodes) : cr.Nodes[j].Chain = cr.Chain
              /\ \A j \in 1..Len(cr.FailedNodes) : cr.FailedNodes[j].Chain = cr.Chain

\* A chain with a node whose connection error would keep the baselines,
\* and another node without error that has a rule record.
C3_Witness ==
    /\ pc = "append"
    /\ \E k \in Succeeded(chainResult.Nodes) :
          /\ BaselinesKept(WithConnFailure(k))
          /\ \E m \in (1..Len(nodes)) \ {k} :
                /\ chainResult.Nodes[m].Error = NoError
                /\ RuleRecordsOf(chainResult.FailedNodes, nodes[m].Address) # <<>>

HasGapRecord(recs, node) ==
    \E j \in 1..Len(recs) :
        recs[j].Address = node.Address /\ recs[j].Reason.kind = "block gap too large"

GapOf(res, node) == res.MaxBlockNumber - node.BlockNumber

\* C4 as stated: every node without error has a gap record iff its gap
\* exceeds MaxBlockGap.
C4_Original ==
    pc = "append" =>
        \A k \in Succeeded(chainResult.Nodes) :
            HasGapRecord(chainResult.FailedNodes, chainResult.Nodes[k])
                <=> GapOf(chainResult, chainResult.Nodes[k]) > opts.MaxBlockGap

\* C4 (amended): every node without error whose chain ID equals the expected
\* one has a gap record iff MaxBlockNumber - BlockNumber > MaxBlockGap (a gap
\* equal to MaxBlockGap gives none); a node with a chain ID mismatch has its
\* mismatch record and no gap record.
C4_GapRecordIffBehind ==
    pc = "append" =>
        \A k \in Succeeded(chainResult.Nodes) :
            LET node == chainResult.Nodes[k]
            IN  IF node.ChainID = chainResult.ExpectedChainID
                THEN HasGapRecord(chainResult.FailedNodes, node)
                        <=> GapOf(chainResult, node) > opts.MaxBlockGap
                ELSE ~HasGapRecord(chainResult.FailedNodes, node)

\* One node exactly MaxBlockGap behind without a gap record, another further
\* behind with one.
C4_Witness ==
    /\ pc = "append"
    /\ opts.MaxBlockGap > 0
    /\ \E k, m \in Succeeded(chainResult.Nodes) :
          /\ chainResult.Nodes[k].ChainID = chainResult.ExpectedChainID
          /\ chainResult.Nodes[m].ChainID = chainResult.ExpectedChainID
          /\ GapOf(chainResult, chainResult.Nodes[k]) = opts.MaxBlockGap
          /\ ~HasGapRecord(chainResult.FailedNodes, chainResult.Nodes[k])
          /\ GapOf(chainResult, chainResult.Nodes[m]) > opts.MaxBlockGap
          /\ HasGapRecord(chainResult.FailedNodes, chainResult.Nodes[m])

MaxOf(S) == IF S = {} THEN 0 ELSE CHOOSE x \in S : \A y \in S : y <= x

MaxIsOverSucceeded(cr) ==
    /\ cr.MaxBlockNumber = MaxOf({cr.Nodes[k].BlockNumber : k \in Succeeded(cr.Nodes)})
    /\ Succeeded(cr.Nodes) = {} => cr.MaxBlockNumber = 0 /\ cr.ExpectedChainID = <<>>

\* C5: MaxBlockNumber of a chain is the maximum BlockNumber over exactly the
\* nodes without error; when every node failed it is 0 and ExpectedChainID
\* is nil.
C5_MaxOverSucceeded ==
    /\ pc \in {"validate", "hashes", "append"} => MaxIsOverSucceeded(chainResult)
    /\ \A c \in 1..Len(result.ChainResults) : MaxIsOverSucceeded(result.ChainResults[c])

\* A chain with a failed node, the highest node first and a lower one after it.
C5_Witness ==
    /\ pc = "append"
    /\ Len(nodes) = 3
    /\ chainResult.Nodes[1].Error = NoError /\ chainResult.Nodes[1].BlockNumber = 2
    /\ chainResult.Nodes[2].Error = "failed to get block number"
    /\ chainResult.Nodes[3].Error = NoError /\ chainResult.Nodes[3].BlockNumber = 1
    /\ chainResult.MaxBlockNumber = 2

\* The nodes that vote on block b, the blocks voted on, the records of block b.
Reporting(ns, b) == {k \in Succeeded(ns) : b \in DOMAIN ns[k].BlockHashes}
BlocksOf(ns) == UNION {DOMAIN ns[k].BlockHashes : k \in Succeeded(ns)}
HashRecordsAt(recs, b) == SelectSeq(recs, LAMBDA r : IsHashRecord(r) /\ r.Reason.a = b)

Unanimous(ns, b) ==
    \A x, y \in Reporting(ns, b) : ns[x].BlockHashes[b] = ns[y].BlockHashes[b]

\* Node d differs at block b from all other voters, which agree.
Dissenter(ns, b, d) ==
    /\ d \in Reporting(ns, b)
    /\ Cardinality(Reporting(ns, b)) >= 2
    /\ \A x \in Reporting(ns, b) \ {d} : ns[x].BlockHashes[b] # ns[d].BlockHashes[b]
    /\ \A x, y \in Reporting(ns, b) \ {d} : ns[x].BlockHashes[b] = ns[y].BlockHashes[b]

\* C6: at a block where all reporting nodes have the same hash no record
\* names the block; at a block where exactly one node differs from the rest
\* exactly one record names the block, and it carries the ID and the hash of
\* the differing node (with two voters, of one of the two).
C6_HashReconciliation ==
    pc = "append" =>
        \A b \in BlocksOf(chainResult.Nodes) :
            LET ns == chainResult.Nodes
                recs == HashRecordsAt(chainResult.FailedNodes, b)
            IN  /\ Unanimous(ns, b) => recs = <<>>
                /\ (\E d \in 1..Len(ns) : Dissenter(ns, b, d)) =>
                      /\ Len(recs) = 1
                      /\ \E d \in 1..Len(ns) :
                            /\ Dissenter(ns, b, d)
                            /\ recs[1].ID = ns[d].ID
                            /\ recs[1].Reason.s = ns[d].BlockHashes[b]

\* Three nodes vote on a block, one differs and has the one record.
C6_Witness ==
    /\ pc = "append"
    /\ \E b \in BlocksOf(chainResult.Nodes) :
          /\ Cardinality(Reporting(chainResult.Nodes, b)) = 3
          /\ Dissenter(chainResult.Nodes, b, 3)
          /\ Len(HashRecordsAt(chainResult.FailedNodes, b)) = 1
          /\ HashRecordsAt(chainResult.FailedNodes, b)[1].Address = nodes[3].Address

\* The hashes of block b reported by the greatest number of nodes.
TopHashes(ns, b) ==
    LET hashMap == blockHashNodes(ns)[b]
    IN  {h \in DOMAIN hashMap : \A g \in DOMAIN hashMap : Len(hashMap[g]) <= Len(hashMap[h])}

\* Among them, the one reported by the node of lowest index.
LowestIndexHash(ns, b) ==
    LET voters == {k \in Reporting(ns, b) : ns[k].BlockHashes[b] \in TopHashes(ns, b)}
    IN  ns[CHOOSE k \in voters : \A j \in voters : k <= j].BlockHashes[b]

\* C7 as stated: when several hashes of a block are reported by the same
\* greatest number of nodes, the majority hash is the one reported by the
\* node of lowest index, and exactly the nodes with another hash are flagged.
C7_TieBreakLowestIndex ==
    pc = "append" =>
        \A b \in BlocksOf(chainResult.Nodes) :
            LET ns == chainResult.Nodes
                recs == HashRecordsAt(chainResult.FailedNodes, b)
            IN  Cardinality(TopHashes(ns, b)) >= 2 =>
                   /\ \A j \in 1..Len(recs) : recs[j].Reason.t = LowestIndexHash(ns, b)
                   /\ \A k \in Reporting(ns, b) :
                         (\E j \in 1..Len(recs) :
                             recs[j].ID = ns[k].ID /\ recs[j].Reason.s = ns[k].BlockHashes[b])
                         <=> ns[k].BlockHashes[b] # LowestIndexHash(ns, b)

PassedIffNoFailures(cr) == cr.Passed <=> cr.FailedNodes = <<>>

\* C8: when checkChain returns, Passed is true iff FailedNodes is empty; a
\* single hash mismatch record makes Passed false.
C8_PassedIffNoFailedNodes ==
    /\ pc = "append" => PassedIffNoFailures(chainResult)
    /\ \A c \in 1..Len(result.ChainResults) : PassedIffNoFailures(result.ChainResults[c])

\* A chain whose only records are hash mismatch records, and Passed is false.
C8_Witness ==
    /\ pc = "append"
    /\ chainResult.FailedNodes # <<>>
    /\ \A j \in 1..Len(chainResult.FailedNodes) : IsHashRecord(chainResult.FailedNodes[j])
    /\ ~chainResult.Passed

AndOfChains(res) == ~res.Passed <=> \E c \in 1..Len(res.ChainResults) : ~res.ChainResults[c].Passed

\* C9: CheckResult.Passed is false iff some ChainResult.Passed is false, in
\* whatever order the chains were visited.
C9_PassedIsAndOfChains ==
    /\ pc \in {"range", "spawn", "wait", "expected", "maxblock", "validate", "hashes",
               "append", "returned"} => AndOfChains(result)
    /\ ret # <<>> =>
          /\ AndOfChains(ret[1].result)
          /\ {ret[1].result.ChainResults[c].Chain : c \in 1..Len(ret[1].result.ChainResults)}
                = DOMAIN nodesByChain

\* Check returned after a failing chain followed by a passing one.
C9_Witness ==
    /\ ret # <<>>
    /\ Len(ret[1].result.ChainResults) = 2
    /\ ~ret[1].result.ChainResults[1].Passed
    /\ ret[1].result.ChainResults[2].Passed
    /\ ~ret[1].result.Passed

\* C10 as stated: with no chain to evaluate Check returns an error and no
\* CheckResult.
C10_NoChainsIsFatal ==
    (ret # <<>> /\ DOMAIN nodesByChain = {}) => ret[1].err # NoError

HasRecord(recs, node, kind) ==
    \E j \in 1..Len(recs) : recs[j].Address = node.Address /\ recs[j].Reason.kind = kind

\* The rules of the validation loop whose condition holds for a node.
RulesHolding(cr, node) ==
    IF node.Error # NoError THEN {"connection error"}
    ELSE (IF node.ChainID # cr.ExpectedChainID THEN {"chain ID mismatch"} ELSE {})
         \cup (IF cr.MaxBlockNumber - node.BlockNumber > opts.MaxBlockGap
               THEN {"block gap too large"} ELSE {})
         \cup (IF opts.CheckDebugMode /\ ~node.DebugOK
               THEN {"debug mode not available"} ELSE {})

RuleOrder ==
    <<"connection error", "chain ID mismatch", "block gap too large", "debug mode not available">>

\* The first rule, in rule order, that holds for the node ("" if none does).
FirstRule(cr, node) ==
    LET holding == {j \in 1..Len(RuleOrder) : RuleOrder[j] \in RulesHolding(cr, node)}
    IN  IF holding = {} THEN ""
        ELSE RuleOrder[CHOOSE j \in holding : \A m \in holding : j <= m]

FirstMatchWins(cr) ==
    \A k \in 1..Len(cr.Nodes) :
        LET own == RuleRecordsOf(cr.FailedNodes, cr.Nodes[k].Address)
        IN  /\ Len(own) <= 1
            /\ Len(own) = 1 <=> FirstRule(cr, cr.Nodes[k]) # ""
            /\ Len(own) = 1 => own[1].Reason.kind = FirstRule(cr, cr.Nodes[k])

\* C12: after the validation loop every node has at most one rule record,
\* and it is the record of the first rule, in the order connection error,
\* chain ID mismatch, block gap, debug mode, whose condition holds for the
\* node (none when no rule holds); the hash mismatch records come after all
\* rule records, from the later pass of checkBlockHashes.
C12_FirstMatchWins ==
    /\ pc \in {"hashes", "append"} =>
          /\ FirstMatchWins(chainResult)
          /\ \A x, y \in 1..Len(chainResult.FailedNodes) :
                (IsHashRecord(chainResult.FailedNodes[x])
                    /\ ~IsHashRecord(chainResult.FailedNodes[y])) => y < x
    /\ pc = "hashes" =>
          \A j \in 1..Len(chainResult.FailedNodes) : ~IsHashRecord(chainResult.FailedNodes[j])

\* A node for which two rules hold has the one record of the first, and a
\* node with a rule record has a hash mismatch record too.
C12_Witness ==
    /\ pc = "append"
    /\ \E k \in 1..Len(chainResult.Nodes) :
          /\ Cardinality(RulesHolding(chainResult, chainResult.Nodes[k])) >= 2
          /\ Len(RuleRecordsOf(chainResult.FailedNodes, nodes[k].Address)) = 1
    /\ \E k \in 1..Len(chainResult.Nodes) :
          /\ Len(RuleRecordsOf(chainResult.FailedNodes, nodes[k].Address)) = 1
          /\ Len(RecordsOf(chainResult.FailedNodes, nodes[k].Address)) >= 2

\* The voters of block b with hash h, and the hash with strictly more voters
\* than every other hash of the block (none: the empty set).
Votes(ns, b, h) == {k \in Reporting(ns, b) : ns[k].BlockHashes[b] = h}
HashesAt(ns, b) == {ns[k].BlockHashes[b] : k \in Reporting(ns, b)}
StrictMajority(ns, b) ==
    {h \in HashesAt(ns, b) :
        \A g \in HashesAt(ns, b) \ {h} :
            Cardinality(Votes(ns, b, g)) < Cardinality(Votes(ns, b, h))}

HasRuleRecordOnly(cr, k) ==
    /\ cr.Nodes[k].Error = NoError
    /\ RuleRecordsOf(cr.FailedNodes, cr.Nodes[k].Address) # <<>>

\* C13: the voters on block b are exactly the nodes without error whose
\* BlockHashes hold b. A node with an error has no hash mismatch record and
\* every such record names a voter with the hash it reported; a node with a
\* rule record but no error votes: where one hash has strictly more voters
\* (counted over all nodes without error) than every other, the records of
\* the block name exactly the voters with another hash and expect that hash.
C13_VotersAreSucceeded ==
    pc = "append" =>
        LET ns == chainResult.Nodes
            recs == chainResult.FailedNodes
        IN  /\ \A j \in 1..Len(recs) :
                  IsHashRecord(recs[j]) =>
                     \E k \in Reporting(ns, recs[j].Reason.a) :
                         /\ ns[k].ID = recs[j].ID
                         /\ ns[k].BlockHashes[recs[j].Reason.a] = recs[j].Reason.s
            /\ \A k \in 1..Len(ns) :
                  ns[k].Error # NoError =>
                     /\ ~\E j \in 1..Len(recs) : IsHashRecord(recs[j]) /\ recs[j].ID = ns[k].ID
                     /\ \A b \in BlocksOf(ns) : k \notin Reporting(ns, b)
            /\ \A b \in BlocksOf(ns) :
                  \A h \in StrictMajority(ns, b) :
                     LET at == HashRecordsAt(recs, b)
                     IN  /\ {at[j].ID : j \in 1..Len(at)}
                               = {ns[k].ID : k \in Reporting(ns, b) \ Votes(ns, b, h)}
                         /\ \A j \in 1..Len(at) : at[j].Reason.t = h

\* Node 2 has a chain ID mismatch record and votes with node 1 against node
\* 3: the vote of node 2 decides and only node 3 is flagged.
C13_Witness ==
    /\ pc = "append"
    /\ Len(nodes) = 3
    /\ HasRuleRecordOnly(chainResult, 2)
    /\ \E b \in BlocksOf(chainResult.Nodes) :
          /\ Reporting(chainResult.Nodes, b) = {1, 2, 3}
          /\ Votes(chainResult.Nodes, b, chainResult.Nodes[1].BlockHashes[b]) = {1, 2}
          /\ Len(HashRecordsAt(chainResult.FailedNodes, b)) = 1
          /\ HashRecordsAt(chainResult.FailedNodes, b)[1].ID = nodes[3].ID

FirstSucceeded(ns) == CHOOSE k \in Succeeded(ns) : \A j \in Succeeded(ns) : k <= j

\* C14: ExpectedChainID is the ChainID of the node of lowest index without
\* error (nil when there is none), whatever the order in which the probes
\* finished; a node has a chain ID mismatch record iff it has no error and
\* its ChainID differs from ExpectedChainID, so a chain whose nodes all
\* succeed with one chain ID has no such record.
C14_BaselineIsFirstInInputOrder ==
    LET ns == chainResult.Nodes
    IN  /\ pc \in {"maxblock", "validate", "hashes", "append"} =>
              chainResult.ExpectedChainID =
                 IF Succeeded(ns) = {} THEN <<>> ELSE ns[FirstSucceeded(ns)].ChainID
        /\ pc \in {"hashes", "append"} =>
              /\ \A k \in 1..Len(ns) :
                    HasRecord(chainResult.FailedNodes, ns[k], "chain ID mismatch")
                       <=> (ns[k].Error = NoError /\ ns[k].ChainID # chainResult.ExpectedChainID)
              /\ (\A k \in 1..Len(ns) : ns[k].Error = NoError /\ ns[k].ChainID = ns[1].ChainID)
                    => ~\E j \in 1..Len(chainResult.FailedNodes) :
                          chainResult.FailedNodes[j].Reason.kind = "chain ID mismatch"

\* Of two nodes the second finished first with another chain ID than the
\* first: the first one's is expected and the second has the record.
C14_Witness ==
    /\ pc = "append"
    /\ Len(nodes) = 2
    /\ outOfOrder
    /\ Succeeded(chainResult.Nodes) = {1, 2}
    /\ chainResult.Nodes[1].ChainID # chainResult.Nodes[2].ChainID
    /\ chainResult.ExpectedChainID = chainResult.Nodes[1].ChainID
    /\ HasRecord(chainResult.FailedNodes, chainResult.Nodes[2], "chain ID mismatch")
    /\ ~HasRecord(chainResult.FailedNodes, chainResult.Nodes[1], "chain ID mismatch")

\* The goroutines whose checkNode has made its first call, and those whose
\* checkNode has returned.
Started(k) == gpc[k] \in {"chainID", "blockNumber", "hashes", "debug", "store", "done"}
Returned(k) == gpc[k] \in {"store", "done"}

\* C11 as stated (its part about the outcomes): every probe that was at one
\* of its calls (connect, chain ID, block number, a block hash fetch, the
\* trace call) when the context was cancelled returns with Error set.
C11_CancelSurfacesFailure ==
    atCancel.chain = chain =>
        \A k \in DOMAIN gpc :
            (k \in DOMAIN atCancel.at /\ atCancel.at[k] # "none" /\ Returned(k))
                => info[k].Error # NoError

Rank(method) ==
    CASE method = "dial" -> 1
      [] method = "eth_chainId" -> 2
      [] method = "eth_blockNumber" -> 3
      [] method = "eth_getBlockByNumber" -> 4
      [] method = "debug_traceBlockByNumber" -> 5

\* The calls come in the order dial, chain ID, block number, block fetches,
\* trace, and a failed dial, chain ID or block number call is the last one.
InOrder(log) ==
    /\ log[1].method = "dial"
    /\ \A x \in 1..(Len(log) - 1) :
          LET a == Rank(log[x].method)
              b == Rank(log[x + 1].method)
          IN  /\ a <= 3 => log[x].ok
              /\ a <= 2 => b = a + 1
              /\ a = 3 => b \in {4, 5}
              /\ a = 4 => b \in {4, 5}
              /\ a # 5

RequiredFailed(log) == \E x \in 1..Len(log) : Rank(log[x].method) <= 3 /\ ~log[x].ok

ErrorOf(method) ==
    CASE method = "dial" -> "failed to connect"
      [] method = "eth_chainId" -> "failed to get chain ID"
      [] method = "eth_blockNumber" -> "failed to get block number"

\* C16: checkNode makes its calls in the order connect, chain ID, block
\* number, block hashes, trace; when the connect, the chain ID or the block
\* number call fails no further call is made and the NodeResult returned
\* has Error set, no BlockHashes and DebugOK false; when the three succeed
\* the NodeResult returned has Error nil.
C16_FailureShortCircuits ==
    \A k \in DOMAIN gpc :
        Started(k) =>
            LET log == calls[k]
                last == log[Len(log)]
            IN  /\ InOrder(log)
                /\ Returned(k) =>
                      IF RequiredFailed(log)
                      THEN /\ Rank(last.method) <= 3 /\ ~last.ok
                           /\ info[k].Error = ErrorOf(last.method)
                           /\ info[k].BlockHashes = EmptyMap
                           /\ ~info[k].DebugOK
                      ELSE /\ info[k].Error = NoError
                           /\ Len(log) >= 3
                           /\ \A x \in 1..3 : Rank(log[x].method) = x /\ log[x].ok

\* A checkNode that returned after a failed block number call, with block
\* hashes and the debug check asked for.
C16_Witness ==
    /\ opts.BlockHashCount > 0
    /\ opts.CheckDebugMode
    /\ \E k \in DOMAIN gpc :
          /\ Returned(k)
          /\ Len(calls[k]) = 3
          /\ calls[k][3] = Call("eth_blockNumber", 0, FALSE)
          /\ info[k].ChainID # <<>>
          /\ info[k].Error = "failed to get block number"

HashCalls(log) == SelectSeq(log, LAMBDA c : c.method = "eth_getBlockByNumber")
TraceCalls(log) == SelectSeq(log, LAMBDA c : c.method = "debug_traceBlockByNumber")

\* The block hash loop of goroutine k has run and ended.
AfterLoop(k) == gpc[k] \in {"debug", "store", "done"} /\ ~RequiredFailed(calls[k])

Min(a, b) == IF a <= b THEN a ELSE b

\* C17: with block number H and BlockHashCount W the loop fetches block
\* H - i for every i with 0 <= i < W and i <= H, whether or not an earlier
\* fetch failed; Error stays nil; the keys of BlockHashes are exactly the
\* blocks whose fetch gave a hash, so there are at most W, none is above H,
\* and there is none when W = 0.
C17_FailedFetchIsNotFatal ==
    \A k \in DOMAIN gpc :
        AfterLoop(k) =>
            LET H == info[k].BlockNumber
                W == opts.BlockHashCount
                fetched == HashCalls(calls[k])
                keys == DOMAIN info[k].BlockHashes
            IN  /\ Len(fetched) = Min(W, H + 1)
                /\ \A x \in 1..Len(fetched) : fetched[x].block = H - (x - 1)
                /\ keys = {fetched[x].block : x \in {y \in 1..Len(fetched) : fetched[y].ok}}
                /\ info[k].Error = NoError
                /\ Cardinality(keys) <= W
                /\ \A b \in keys : b <= H
                /\ W = 0 => info[k].BlockHashes = EmptyMap

\* A checkNode that returned without error after a failed fetch of block H
\* followed by a good fetch of block H - 1.
C17_Witness ==
    \E k \in DOMAIN gpc :
        /\ Returned(k)
        /\ AfterLoop(k)
        /\ Len(HashCalls(calls[k])) >= 2
        /\ ~HashCalls(calls[k])[1].ok
        /\ HashCalls(calls[k])[2].ok
        /\ DOMAIN info[k].BlockHashes = {info[k].BlockNumber - 1}
        /\ info[k].Error = NoError

NoDebugRecord(recs) ==
    \A j \in 1..Len(recs) : recs[j].Reason.kind # "debug mode not available"

\* C18: without CheckDebugMode no debug_traceBlockByNumber call is made,
\* every NodeResult returned without error has DebugOK true and no
\* FailedNode has the debug reason; with CheckDebugMode a NodeResult
\* returned without error has DebugOK true iff its one trace call
\* succeeded, and a failed trace call leaves Error nil.
C18_DebugCheck ==
    /\ \A k \in DOMAIN gpc :
          Started(k) =>
             LET trace == TraceCalls(calls[k])
             IN  /\ ~opts.CheckDebugMode => trace = <<>>
                 /\ (\E x \in 1..Len(trace) : ~trace[x].ok) => info[k].Error = NoError
                 /\ (Returned(k) /\ info[k].Error = NoError) =>
                       IF opts.CheckDebugMode
                       THEN Len(trace) = 1 /\ (info[k].DebugOK <=> trace[1].ok)
                       ELSE info[k].DebugOK
    /\ ~opts.CheckDebugMode =>
          /\ NoDebugRecord(chainResult.FailedNodes)
          /\ NoDebugRecord(result.FailedNodes)

\* With CheckDebugMode, a node whose trace call failed: no error, DebugOK
\* false and the debug record.
C18_Witness ==
    /\ pc = "append"
    /\ opts.CheckDebugMode
    /\ \E k \in DOMAIN gpc :
          /\ TraceCalls(calls[k]) = <<Call("debug_traceBlockByNumber", info[k].BlockNumber, FALSE)>>
          /\ chainResult.Nodes[k].Error = NoError
          /\ ~chainResult.Nodes[k].DebugOK
          /\ HasRecord(chainResult.FailedNodes, chainResult.Nodes[k], "debug mode not available")

\* The blocks with two or more hashes reported.
Contested(ns) == {b \in BlocksOf(ns) : Cardinality(HashesAt(ns, b)) >= 2}

\* The hash records of block b that name node ID id with hash h.
RecordsNaming(recs, b, id, h) ==
    SelectSeq(recs, LAMBDA r : IsHashRecord(r) /\ r.Reason.a = b /\ r.ID = id /\ r.Reason.s = h)

\* The blocks at which node k reports another hash than the strict majority.
MinorityBlocks(ns, k) ==
    {b \in Contested(ns) : k \in Reporting(ns, b) /\ ns[k].BlockHashes[b] \notin StrictMajority(ns, b)}

\* C15: at every block with two or more hashes of which one is reported by
\* strictly more nodes than every other, that hash is the expected one of
\* every record of the block; every node with another hash has exactly one
\* record of the block with its ID and its hash, no record of the block
\* carries the majority hash, and a node that is in the minority at k
\* blocks has k records.
C15_MajorityAndMismatchRecords ==
    pc = "append" =>
        LET ns == chainResult.Nodes
            recs == chainResult.FailedNodes
        IN  /\ \A b \in Contested(ns) :
                  \A m \in StrictMajority(ns, b) :
                     /\ \A j \in 1..Len(recs) :
                           (IsHashRecord(recs[j]) /\ recs[j].Reason.a = b) =>
                              recs[j].Reason.t = m /\ recs[j].Reason.s # m
                     /\ \A h \in HashesAt(ns, b) \ {m} :
                           \A k \in Votes(ns, b, h) :
                              Len(RecordsNaming(recs, b, ns[k].ID, h))
                                 = Cardinality({j \in Votes(ns, b, h) : ns[j].ID = ns[k].ID})
                     /\ \A k \in Votes(ns, b, m) :
                           RecordsNaming(recs, b, ns[k].ID, m) = <<>>
            /\ \A k \in Succeeded(ns) :
                  ((\A j \in 1..Len(ns) : ns[j].ID = ns[k].ID => j = k)
                      /\ \A b \in Contested(ns) : StrictMajority(ns, b) # {}) =>
                     Len(SelectSeq(recs, LAMBDA r : IsHashRecord(r) /\ r.ID = ns[k].ID))
                        = Cardinality(MinorityBlocks(ns, k))

\* Node 3 differs from nodes 1 and 2, which agree, at two blocks and has
\* its two records; nodes 1 and 2 have none.
C15_Witness ==
    /\ pc = "append"
    /\ nodes[1].ID # nodes[2].ID
    /\ Cardinality(MinorityBlocks(chainResult.Nodes, 3)) = 2
    /\ \A b \in MinorityBlocks(chainResult.Nodes, 3) :
          Cardinality(StrictMajority(chainResult.Nodes, b)) = 1
    /\ Len(SelectSeq(chainResult.FailedNodes,
                     LAMBDA r : IsHashRecord(r) /\ r.ID = nodes[3].ID)) = 2
    /\ \A j \in 1..Len(chainResult.FailedNodes) : chainResult.FailedNodes[j].ID = nodes[3].ID

\* No block has two hashes reported by the same number of nodes.
NoTiedCounts(ns) ==
    \A b \in BlocksOf(ns) :
        \A g, h \in HashesAt(ns, b) :
            g # h => Cardinality(Votes(ns, b, g)) # Cardinality(Votes(ns, b, h))

\* The index of the node with this address (addresses are unique).
IndexOf(ns, addr) == CHOOSE k \in 1..Len(ns) : ns[k].Address = addr

\* C19 as stated: when no block has tied hash counts, the stored node
\* results determine the ChainResult, the order of FailedNodes included:
\* every evaluation gives the one that was returned, with the rule records
\* in node order followed by the hash mismatch records.
C19_DeterministicOutcome ==
    (pc = "append" /\ NoTiedCounts(chainResult.Nodes)) =>
        LET recs == chainResult.FailedNodes
        IN  /\ evalChain(opts, chain, chainResult.Nodes) = {chainResult}
            /\ \A x, y \in 1..Len(recs) :
                  (x < y /\ ~IsHashRecord(recs[y])) =>
                     /\ ~IsHashRecord(recs[x])
                     /\ IndexOf(chainResult.Nodes, recs[x].Address)
                           < IndexOf(chainResult.Nodes, recs[y].Address)

\* C20 as stated: every hash mismatch record carries the ID, the chain and
\* the address of a node that reported the record's hash for the record's
\* block.
C20_RecordNamesReporter ==
    pc = "append" =>
        \A j \in 1..Len(chainResult.FailedNodes) :
            LET r == chainResult.FailedNodes[j]
            IN  IsHashRecord(r) =>
                   \E k \in Reporting(chainResult.Nodes, r.Reason.a) :
                       /\ chainResult.Nodes[k].BlockHashes[r.Reason.a] = r.Reason.s
                       /\ chainResult.Nodes[k].ID = r.ID
                       /\ chainResult.Nodes[k].Chain = r.Chain
                       /\ chainResult.Nodes[k].Address = r.Address

=============================================================================
